---- MODULE Spec2Model ----
(***************************************************************************)
(* Model of the helix-go query layer: marshalInput, Client.Query and the   *)
(* three decode strategies of helixResponse (Raw, AsMap, Scan).            *)
(*                                                                         *)
(* Byte slices and strings are sequences of one-character strings.  The    *)
(* encoding/json calls the code makes are modelled on the whitespace-free  *)
(* JSON fragment made of objects, arrays, strings without escapes and      *)
(* unsigned integers.                                                      *)
(***************************************************************************)
EXTENDS Integers, Sequences, FiniteSets, TLC

\* ------------------------------------------------------------------ bounds
MaxLen  == 3      \* longest string / []byte handed to marshalInput
MaxOpts == 3      \* most options in one Query call
MaxArgs == 3      \* most arguments in one Scan call

\* ------------------------------------------------------------------ errors
\* A Go error value: what kind of failure, its formatted argument (a field
\* name, a status line, a type name) and the kind of the error it wraps.
MkErr(kind, arg, cause) == [kind |-> kind, arg |-> arg, cause |-> cause]
NoErr == MkErr("nil", <<>>, "")

NoDestination       == "scan destination is expected"
NotAPointer         == "scan destination must be a pointer"
NilDestination      == "scan destination cannot be nil"
InvalidArgumentType == "invalid scan argument type"
InvalidResponse     == "invalid json response"
FieldNotFound       == "field not found"
FieldDecodeError    == "failed to scan field"
InvalidJSONString   == "provided string is not valid JSON"
InvalidJSONBytes    == "provided byte slice is not valid JSON"
SequenceNotAllowed  == "input data cannot be a slice or array"
UnsupportedShape    == "unsupported input data type"
EncodeError         == "failed to marshal input data"
RequestBuildError   == "failed to create request"
TransportError      == "failed to send request"
HTTPStatusError     == "%d: %s"
SyntaxError         == "json: SyntaxError"
UnmarshalTypeError  == "json: UnmarshalTypeError"
UnsupportedTypeError == "json: UnsupportedTypeError"

\* ------------------------------------------------------------- characters
Digits == <<"0", "1", "2", "3", "4", "5", "6", "7", "8", "9">>
DigitSet == {Digits[i] : i \in 1..10}
DigitVal(c) == (CHOOSE i \in 1..10 : Digits[i] = c) - 1

At(s, i) == IF i \in 1..Len(s) THEN s[i] ELSE "EOF"

\* strconv: decimal text of a natural number (the %d verb)
RECURSIVE Itoa(_)
Itoa(n) == IF n < 10 THEN <<Digits[n + 1]>>
           ELSE Itoa(n \div 10) \o <<Digits[(n % 10) + 1]>>

\* value of a run of decimal digits
RECURSIVE Atoi(_)
Atoi(s) == IF s = <<>> THEN 0
           ELSE 10 * Atoi(SubSeq(s, 1, Len(s) - 1)) + DigitVal(s[Len(s)])

\* ----------------------------------------------------- encoding/json scanner
\* Each scan operator takes the text and the index of the first character of
\* the construct, and yields the index just after it, or 0 when the text is
\* not well formed there.
RECURSIVE scanStringBody(_, _)
scanStringBody(s, i) ==
    IF i > Len(s) THEN 0
    ELSE IF s[i] = "\"" THEN i + 1
    ELSE IF s[i] = "\\" THEN 0
    ELSE scanStringBody(s, i + 1)

scanString(s, i) == IF At(s, i) = "\"" THEN scanStringBody(s, i + 1) ELSE 0

RECURSIVE scanDigits(_, _)
scanDigits(s, i) == IF At(s, i) \in DigitSet THEN scanDigits(s, i + 1) ELSE i

scanNumber(s, i) ==
    IF At(s, i) = "0" THEN i + 1
    ELSE IF At(s, i) \in DigitSet THEN scanDigits(s, i + 1)
    ELSE 0

RECURSIVE scanValue(_, _), scanMembers(_, _), scanElements(_, _)
RECURSIVE afterKey(_, _), afterMember(_, _), afterElement(_, _)
scanValue(s, i) ==
    CASE At(s, i) = "{"  -> IF At(s, i + 1) = "}" THEN i + 2
                            ELSE scanMembers(s, i + 1)
      [] At(s, i) = "["  -> IF At(s, i + 1) = "]" THEN i + 2
                            ELSE scanElements(s, i + 1)
      [] At(s, i) = "\"" -> scanString(s, i)
      [] At(s, i) \in DigitSet -> scanNumber(s, i)
      [] OTHER -> 0

\* a member: its key (ending before k), a colon, its value (ending before v)
scanMembers(s, i) == afterKey(s, scanString(s, i))

afterKey(s, k) ==
    IF k = 0 \/ At(s, k) # ":" THEN 0
    ELSE afterMember(s, scanValue(s, k + 1))

afterMember(s, v) ==
    IF v = 0 THEN 0
    ELSE IF At(s, v) = "," THEN scanMembers(s, v + 1)
    ELSE IF At(s, v) = "}" THEN v + 1
    ELSE 0

scanElements(s, i) == afterElement(s, scanValue(s, i))

afterElement(s, v) ==
    IF v = 0 THEN 0
    ELSE IF At(s, v) = "," THEN scanElements(s, v + 1)
    ELSE IF At(s, v) = "]" THEN v + 1
    ELSE 0

\* json.Valid
jsonValid(s) == scanValue(s, 1) = Len(s) + 1

\* ------------------------------------------------------------ json.Marshal
\* A struct or map value is its list of <<key, number>> fields; json.Marshal
\* writes {"k":n,...}.
RECURSIVE encodeFields(_)
encodeFields(fs) ==
    IF fs = <<>> THEN <<>>
    ELSE LET f == fs[1]
             one == <<"\"">> \o f[1] \o <<"\"", ":">> \o Itoa(f[2])
         IN IF Len(fs) = 1 THEN one
            ELSE one \o <<",">> \o encodeFields(Tail(fs))

jsonMarshal(input) ==
    IF ~input.encodable
    THEN [bytes |-> <<>>, err |-> MkErr(UnsupportedTypeError, <<>>, "")]
    ELSE [bytes |-> <<"{">> \o encodeFields(input.fields) \o <<"}">>,
          err |-> NoErr]

\* ------------------------------------------------------------ marshalInput
\* An input value (the dynamic value inside the `any`):
\*   kind      reflect.Kind of the value, or of the pointee for a pointer
\*   elem      element type of a slice or array, "" otherwise
\*   ptr       "no" | "ptr" (non-nil pointer to the value) | "nilptr"
\*   text      the characters of a string or []byte
\*   fields    the fields of a struct or map
\*   encodable FALSE when json.Marshal rejects the value (a chan field, ...)
MkInput(kind, elem, ptr, text, fields, encodable) ==
    [kind |-> kind, elem |-> elem, ptr |-> ptr, text |-> text,
     fields |-> fields, encodable |-> encodable]

NilInput == MkInput("nil", "", "no", <<>>, <<>>, TRUE)

isString(input) == input.ptr = "no" /\ input.kind = "string"
isBytes(input)  == input.ptr = "no" /\ input.kind = "slice"
                   /\ input.elem = "uint8"

\* the kind taken without the dereference
derefKind_noDeref(input) ==
    IF input.ptr # "no" THEN "ptr" ELSE input.kind

\* reflect.ValueOf(input).Kind() after the one-level dereference
derefKind(input) ==
    IF input.ptr = "nilptr" THEN "invalid" ELSE input.kind

\* marshalInput taking a string as it comes
marshalInput_trustString(input) ==
    IF input = NilInput
    THEN [bytes |-> <<"{", "}">>, err |-> NoErr]
    ELSE IF isString(input)
    THEN [bytes |-> input.text, err |-> NoErr]
    ELSE IF isBytes(input)
    THEN IF ~jsonValid(input.text)
         THEN [bytes |-> <<>>, err |-> MkErr(InvalidJSONBytes, <<>>, "")]
         ELSE [bytes |-> input.text, err |-> NoErr]
    ELSE LET k == derefKind(input) IN
         IF k \in {"struct", "map"} THEN jsonMarshal(input)
         ELSE IF k \in {"slice", "array"}
         THEN [bytes |-> <<>>, err |-> MkErr(SequenceNotAllowed, <<>>, "")]
         ELSE [bytes |-> <<>>, err |-> MkErr(UnsupportedShape, <<k>>, "")]

marshalInput(input) ==
    IF input = NilInput
    THEN [bytes |-> <<"{", "}">>, err |-> NoErr]
    ELSE IF isString(input)
    THEN IF ~jsonValid(input.text)
         THEN [bytes |-> <<>>, err |-> MkErr(InvalidJSONString, <<>>, "")]
         ELSE [bytes |-> input.text, err |-> NoErr]
    ELSE IF isBytes(input)
    THEN IF ~jsonValid(input.text)
         THEN [bytes |-> <<>>, err |-> MkErr(InvalidJSONBytes, <<>>, "")]
         ELSE [bytes |-> input.text, err |-> NoErr]
    ELSE LET k == derefKind(input) IN
         IF k \in {"struct", "map"} THEN jsonMarshal(input)
         ELSE IF k \in {"slice", "array"}
         THEN [bytes |-> <<>>, err |-> MkErr(SequenceNotAllowed, <<>>, "")]
         ELSE [bytes |-> <<>>, err |-> MkErr(UnsupportedShape, <<k>>, "")]

\* ---------------------------------------------------------- json.Unmarshal
\* A decoded Go value: its dynamic type tag, a number and a string.
MkVal(t, n, str) == [t |-> t, n |-> n, s |-> str]
NilVal == MkVal("nil", 0, <<>>)

\* members of the well-formed object text s, from the key that starts at i
RECURSIVE members(_, _), memberKey(_, _, _), memberValue(_, _, _, _)
members(s, i) == memberKey(s, i, scanString(s, i))

memberKey(s, i, k) == memberValue(s, i, k, scanValue(s, k + 1))

memberValue(s, i, k, v) ==
    IF At(s, v) = ","
    THEN << <<SubSeq(s, i + 1, k - 2), SubSeq(s, k + 1, v - 1)>> >>
         \o members(s, v + 1)
    ELSE << <<SubSeq(s, i + 1, k - 2), SubSeq(s, k + 1, v - 1)>> >>

objectMembers(s) == IF At(s, 2) = "}" THEN <<>> ELSE members(s, 2)

RECURSIVE countElements(_, _), countFrom(_, _)
countElements(s, i) == countFrom(s, scanValue(s, i))

countFrom(s, v) ==
    IF At(s, v) = "," THEN 1 + countElements(s, v + 1) ELSE 1

\* a Go map built from the members in order: the last duplicate key wins
membersToMap(ms) ==
    [k \in {ms[i][1] : i \in 1..Len(ms)} |->
        ms[CHOOSE i \in 1..Len(ms) :
              /\ ms[i][1] = k
              /\ \A j \in (i + 1)..Len(ms) : ms[j][1] # k][2]]

\* json.Unmarshal(s, &m) for m of type map[string]json.RawMessage
unmarshalRawMap(s) ==
    IF ~jsonValid(s)
    THEN [m |-> <<>>, err |-> MkErr(SyntaxError, <<>>, "")]
    ELSE IF s[1] # "{"
    THEN [m |-> <<>>, err |-> MkErr(UnmarshalTypeError, <<>>, "")]
    ELSE [m |-> membersToMap(objectMembers(s)), err |-> NoErr]

\* the interface{} value of the well-formed JSON text s
decodeAny(s) ==
    CASE s[1] = "{"  -> MkVal("map", Len(objectMembers(s)), <<>>)
      [] s[1] = "["  -> MkVal("slice",
                              IF At(s, 2) = "]" THEN 0
                              ELSE countElements(s, 2), <<>>)
      [] s[1] = "\"" -> MkVal("string", 0, SubSeq(s, 2, Len(s) - 1))
      [] OTHER       -> MkVal("float64", Atoi(s), <<>>)

\* json.Unmarshal(s, dest) for dest pointing at a variable of type typ that
\* holds old: the value left in the variable and the error returned
unmarshalInto(s, typ, old) ==
    IF ~jsonValid(s)
    THEN [val |-> old, wrote |-> FALSE,
          err |-> MkErr(SyntaxError, <<>>, "")]
    ELSE IF typ = "any"
    THEN [val |-> decodeAny(s), wrote |-> TRUE, err |-> NoErr]
    ELSE IF s[1] \in DigitSet
    THEN [val |-> MkVal("int", Atoi(s), <<>>), wrote |-> TRUE, err |-> NoErr]
    ELSE [val |-> old, wrote |-> FALSE,
          err |-> MkErr(UnmarshalTypeError, <<>>, "")]

\* --------------------------------------------------- the caller's variables
\* Scan destinations point at variables of the caller: an `int` and an
\* `any` (interface{}).  Two arguments may point at the same variable.
CellType == <<"int", "any">>
Cells == DOMAIN CellType
ZeroMem == [c \in Cells |->
              IF CellType[c] = "int" THEN MkVal("int", 0, <<>>) ELSE NilVal]

\* A Scan argument:
\*   opt   TRUE for a ScanOptionFunc built by WithDest(name, dest)
\*   name  the field name of the descriptor
\*   dest  "ptr" (non-nil pointer to cell) | "nilptr" (typed nil pointer) |
\*         "nonptr" (any value that is not a pointer)
\*   cell  the variable pointed at when dest = "ptr"
MkArg(opt, name, dest, cell) ==
    [opt |-> opt, name |-> name, dest |-> dest, cell |-> cell]

WithDest(name, dest, cell) == MkArg(TRUE, name, dest, cell)
Bare(dest, cell) == MkArg(FALSE, <<>>, dest, cell)

\* an argument taken as a destination: a ScanOptionFunc is a func value,
\* not a pointer
asDest(arg) == IF arg.opt THEN "nonptr" ELSE arg.dest

\* the pointer check reporting a nil pointer as not a pointer
validateDestPointer_oneKind(dest) ==
    IF dest # "ptr" THEN MkErr(NotAPointer, <<>>, "") ELSE NoErr

validateDestPointer(dest) ==
    IF dest # "ptr" /\ dest # "nilptr"
    THEN MkErr(NotAPointer, <<>>, "")
    ELSE IF dest = "nilptr"
    THEN MkErr(NilDestination, <<>>, "")
    ELSE NoErr

\* validateDestOption reporting the pointer check's failure
validateDestOption_ptrErr(arg) ==
    IF ~arg.opt THEN validateDestPointer(arg.dest) ELSE NoErr

validateDestOption(arg) ==
    IF ~arg.opt THEN MkErr(InvalidArgumentType, <<arg.dest>>, "") ELSE NoErr

\* The outcome of a step of Scan: the error, the caller's memory, the
\* number of json.Unmarshal calls made and the cells written, in order.
MkOut(err, mem, decodes, written) ==
    [err |-> err, mem |-> mem, decodes |-> decodes, written |-> written]

\* the end of scanOption: u is what json.Unmarshal(rawData, opt.dest) did
storeField(opt, mem, u) ==
    MkOut(IF u.err # NoErr
          THEN MkErr(FieldDecodeError, opt.name, u.err.kind)
          ELSE NoErr,
          [mem EXCEPT ![opt.cell] = u.val], 1,
          IF u.wrote THEN <<opt.cell>> ELSE <<>>)

\* scanOption looking the field up before it validates the destination
scanOption_lookupFirst(opt, jsonData, mem) ==
    IF opt.name \notin DOMAIN jsonData
    THEN MkOut(MkErr(FieldNotFound, opt.name, ""), mem, 0, <<>>)
    ELSE IF validateDestPointer(opt.dest) # NoErr
    THEN MkOut(validateDestPointer(opt.dest), mem, 0, <<>>)
    ELSE storeField(opt, mem,
                    unmarshalInto(jsonData[opt.name], CellType[opt.cell],
                                  mem[opt.cell]))

scanOption(opt, jsonData, mem) ==
    IF validateDestPointer(opt.dest) # NoErr
    THEN MkOut(validateDestPointer(opt.dest), mem, 0, <<>>)
    ELSE IF opt.name \notin DOMAIN jsonData
    THEN MkOut(MkErr(FieldNotFound, opt.name, ""), mem, 0, <<>>)
    ELSE storeField(opt, mem,
                    unmarshalInto(jsonData[opt.name], CellType[opt.cell],
                                  mem[opt.cell]))

\* out, the outcome so far, with o, the outcome of one more scanOption call
accumulate(out, o) ==
    MkOut(o.err, o.mem, out.decodes + o.decodes, out.written \o o.written)

\* the loop going on after a failing descriptor, keeping the first error
RECURSIVE scanLoop_continue(_, _, _, _)
scanLoop_continue(args, i, jsonData, out) ==
    IF i > Len(args) THEN out
    ELSE IF ~args[i].opt
    THEN [out EXCEPT !.err = MkErr(InvalidArgumentType, <<args[i].dest>>, "")]
    ELSE scanLoop_continue(args, i + 1, jsonData,
            [accumulate(out, scanOption(args[i], jsonData, out.mem))
                EXCEPT !.err = IF out.err # NoErr THEN out.err ELSE @])

\* the loop passing over an argument that is not a descriptor
RECURSIVE scanLoop_skipBare(_, _, _, _), afterOption_skipBare(_, _, _, _)
scanLoop_skipBare(args, i, jsonData, out) ==
    IF i > Len(args) THEN out
    ELSE IF ~args[i].opt THEN scanLoop_skipBare(args, i + 1, jsonData, out)
    ELSE afterOption_skipBare(args, i, jsonData,
            accumulate(out, scanOption(args[i], jsonData, out.mem)))
afterOption_skipBare(args, i, jsonData, acc) ==
    IF acc.err # NoErr THEN acc
    ELSE scanLoop_skipBare(args, i + 1, jsonData, acc)

\* the loop of the multi-argument path, from argument i on
RECURSIVE scanLoop(_, _, _, _), afterOption(_, _, _, _)
scanLoop(args, i, jsonData, out) ==
    IF i > Len(args) THEN out
    ELSE IF ~args[i].opt
    THEN [out EXCEPT !.err = MkErr(InvalidArgumentType, <<args[i].dest>>, "")]
    ELSE afterOption(args, i, jsonData,
            accumulate(out, scanOption(args[i], jsonData, out.mem)))

\* the loop after the scanOption call on argument i
afterOption(args, i, jsonData, acc) ==
    IF acc.err # NoErr THEN acc
    ELSE scanLoop(args, i + 1, jsonData, acc)

\* the single-argument path validating the destination before it looks at
\* the decoded body
scanSingleField_validateFirst(arg, mem, d) ==
    IF validateDestPointer(arg.dest) # NoErr
    THEN MkOut(validateDestPointer(arg.dest), mem, 1, <<>>)
    ELSE IF d.err # NoErr
    THEN MkOut(MkErr(InvalidResponse, <<>>, d.err.kind), mem, 1, <<>>)
    ELSE accumulate(MkOut(NoErr, mem, 1, <<>>), scanOption(arg, d.m, mem))

\* the single-argument path once the body is decoded into d
scanSingleField(arg, mem, d) ==
    IF d.err # NoErr
    THEN MkOut(MkErr(InvalidResponse, <<>>, d.err.kind), mem, 1, <<>>)
    ELSE accumulate(MkOut(NoErr, mem, 1, <<>>), scanOption(arg, d.m, mem))

\* the whole-body decode: u is what json.Unmarshal(r.bytes, args[0]) did
storeWhole(arg, mem, u) ==
    MkOut(u.err, [mem EXCEPT ![arg.cell] = u.val], 1,
          IF u.wrote THEN <<arg.cell>> ELSE <<>>)

\* the single-argument path of Scan
scanSingle(r, arg, mem) ==
    IF validateDestPointer(asDest(arg)) # NoErr
    THEN IF validateDestOption(arg) # NoErr
         THEN MkOut(validateDestOption(arg), mem, 0, <<>>)
         ELSE scanSingleField(arg, mem, unmarshalRawMap(r.bytes))
    ELSE storeWhole(arg, mem,
                    unmarshalInto(r.bytes, CellType[arg.cell], mem[arg.cell]))

\* the multi-argument path once the body is decoded into d
scanFields(args, mem, d) ==
    IF d.err # NoErr
    THEN MkOut(MkErr(InvalidResponse, <<>>, d.err.kind), mem, 1, <<>>)
    ELSE scanLoop(args, 1, d.m, MkOut(NoErr, mem, 1, <<>>))

\* the multi-argument path of Scan
scanMulti(r, args, mem) == scanFields(args, mem, unmarshalRawMap(r.bytes))

\* Scan with the argument count checked before the stored error
Scan_countFirst(r, args, mem) ==
    IF Len(args) = 0
    THEN MkOut(MkErr(NoDestination, <<>>, ""), mem, 0, <<>>)
    ELSE IF r.err # NoErr THEN MkOut(r.err, mem, 0, <<>>)
    ELSE IF Len(args) = 1 THEN scanSingle(r, args[1], mem)
    ELSE scanMulti(r, args, mem)

\* helixResponse.Scan
Scan(r, args, mem) ==
    IF r.err # NoErr THEN MkOut(r.err, mem, 0, <<>>)
    ELSE IF Len(args) = 0
    THEN MkOut(MkErr(NoDestination, <<>>, ""), mem, 0, <<>>)
    ELSE IF Len(args) = 1 THEN scanSingle(r, args[1], mem)
    ELSE scanMulti(r, args, mem)

\* helixResponse.Raw
Raw(r) == [bytes |-> r.bytes, present |-> r.present, err |-> r.err]

\* the map AsMap returns once the body is decoded into d
asMapResult(d) ==
    IF d.err # NoErr THEN [m |-> {}, err |-> d.err, decodes |-> 1]
    ELSE [m |-> {<<k, decodeAny(d.m[k])>> : k \in DOMAIN d.m},
          err |-> NoErr, decodes |-> 1]

\* AsMap decoding before it looks at the stored error
AsMap_decodeFirst(r) ==
    IF unmarshalRawMap(r.bytes).err = NoErr /\ r.err # NoErr
    THEN [m |-> {}, err |-> r.err, decodes |-> 1]
    ELSE asMapResult(unmarshalRawMap(r.bytes))

\* helixResponse.AsMap: the map as a set of <<key, value>> pairs
AsMap(r) ==
    IF r.err # NoErr THEN [m |-> {}, err |-> r.err, decodes |-> 0]
    ELSE asMapResult(unmarshalRawMap(r.bytes))

\* ------------------------------------------------------------ Client.Query
\* A functional option: WithData(v) or WithTarget(v).
WithData(v)   == [k |-> "data", v |-> v]
WithTarget(v) == [k |-> "target", v |-> v]

\* QueryOption{} and the options applied to it in order
ZeroOption == [data |-> NilInput, datatype |-> NilInput]

\* options that keep the first data value
applyOpt_firstWins(option, opt) ==
    IF opt.k = "data"
    THEN IF option.data = NilInput THEN [option EXCEPT !.data = opt.v]
         ELSE option
    ELSE [option EXCEPT !.datatype = opt.v]

applyOpt(option, opt) ==
    IF opt.k = "data" THEN [option EXCEPT !.data = opt.v]
    ELSE [option EXCEPT !.datatype = opt.v]

RECURSIVE applyOpts(_, _)
applyOpts(option, opts) ==
    IF opts = <<>> THEN option
    ELSE applyOpts(applyOpt(option, Head(opts)), Tail(opts))

\* A response holder: bytes (present = FALSE for the nil slice) and err.
MkHolder(bytes, present, err) ==
    [bytes |-> bytes, present |-> present, err |-> err]

\* What the transport does with the request:
\*   sendOK  FALSE when httpClient.Do returns an error
\*   status  res.StatusCode
\*   body    the bytes of the response body
\*   read    how many of them io.ReadAll delivers; fewer than Len(body)
\*           when reading fails part-way
MkOutcome(sendOK, status, body, read) ==
    [sendOK |-> sendOK, status |-> status, body |-> body, read |-> read]

\* a failed read giving no bytes at all
readAll_emptyOnError(outcome) ==
    IF outcome.read < Len(outcome.body) THEN <<>> ELSE outcome.body

\* io.ReadAll returns what it read along with the error, which Query drops
readAll(outcome) == SubSeq(outcome.body, 1, outcome.read)

\* the success range closed at 300
statusOK_closed(status) == ~(status < 200 \/ status > 300)

statusOK(status) == ~(status < 200 \/ status >= 300)

\* The result of Query: the holder, the payload handed to the request, the
\* steps that ran, in order, and the number of httpClient.Do calls.
MkQ(holder, payload, steps, sends) ==
    [holder |-> holder, payload |-> payload, steps |-> steps,
     sends |-> sends]

\* Query sending the request a second time when the transport fails
sendPayload_retry(urlOK, outcome, jsonData) ==
    IF jsonData.err # NoErr
    THEN MkQ(MkHolder(<<>>, FALSE,
                      MkErr(EncodeError, jsonData.err.arg, jsonData.err.kind)),
             <<>>, <<"encode">>, 0)
    ELSE IF ~urlOK
    THEN MkQ(MkHolder(<<>>, FALSE, MkErr(RequestBuildError, <<>>, "url")),
             jsonData.bytes, <<"encode", "build">>, 0)
    ELSE IF ~outcome.sendOK
    THEN MkQ(MkHolder(<<>>, FALSE, MkErr(TransportError, <<>>, "net")),
             jsonData.bytes, <<"encode", "build", "send", "send">>, 2)
    ELSE IF ~statusOK(outcome.status)
    THEN MkQ(MkHolder(<<>>, FALSE,
                      MkErr(HTTPStatusError,
                            Itoa(outcome.status) \o <<":", " ">>
                                \o readAll(outcome),
                            "")),
             jsonData.bytes,
             <<"encode", "build", "send", "read", "status">>, 1)
    ELSE MkQ(MkHolder(readAll(outcome), TRUE, NoErr), jsonData.bytes,
             <<"encode", "build", "send", "read", "status">>, 1)

\* Query from the marshalInput call on: jsonData is what it returned
sendPayload(urlOK, outcome, jsonData) ==
    IF jsonData.err # NoErr
    THEN MkQ(MkHolder(<<>>, FALSE,
                      MkErr(EncodeError, jsonData.err.arg, jsonData.err.kind)),
             <<>>, <<"encode">>, 0)
    ELSE IF ~urlOK
    THEN MkQ(MkHolder(<<>>, FALSE, MkErr(RequestBuildError, <<>>, "url")),
             jsonData.bytes, <<"encode", "build">>, 0)
    ELSE IF ~outcome.sendOK
    THEN MkQ(MkHolder(<<>>, FALSE, MkErr(TransportError, <<>>, "net")),
             jsonData.bytes, <<"encode", "build", "send">>, 1)
    ELSE IF ~statusOK(outcome.status)
    THEN MkQ(MkHolder(<<>>, FALSE,
                      MkErr(HTTPStatusError,
                            Itoa(outcome.status) \o <<":", " ">>
                                \o readAll(outcome),
                            "")),
             jsonData.bytes,
             <<"encode", "build", "send", "read", "status">>, 1)
    ELSE MkQ(MkHolder(readAll(outcome), TRUE, NoErr), jsonData.bytes,
             <<"encode", "build", "send", "read", "status">>, 1)

Query(urlOK, opts, outcome) ==
    sendPayload(urlOK, outcome,
                marshalInput(applyOpts(ZeroOption, opts).data))

\* ------------------------------------------------------------------ inputs
Alphabet == {"{", "}", "[", "]", "0", "1", "\"", "a", ",", ":"}
Texts(n) == UNION {[1..k -> Alphabet] : k \in 0..n}

StringInput(t) == MkInput("string", "", "no", t, <<>>, TRUE)
BytesInput(t)  == MkInput("slice", "uint8", "no", t, <<>>, TRUE)

FieldLists == {<<>>, << <<<<"a">>, 1>> >>, << <<<<"a">>, 1>>, <<<<"b">>, 20>> >>}
Ptrs == {"no", "ptr", "nilptr"}

\* structs and maps, slices and arrays, scalars, pointers to any of them
ShapeInputs ==
    {MkInput(k, "", p, <<>>, f, e) :
        k \in {"struct", "map"}, p \in Ptrs, f \in FieldLists, e \in BOOLEAN}
    \cup {MkInput(k, el, p, <<>>, <<>>, TRUE) :
        k \in {"slice", "array"}, el \in {"int", "string"}, p \in Ptrs}
    \cup {MkInput(k, "uint8", p, t, <<>>, TRUE) :
        k \in {"slice", "array"}, p \in Ptrs, t \in {<<>>, <<"{", "}">>}}
    \cup {MkInput(k, "", p, <<>>, <<>>, TRUE) :
        k \in {"int", "bool"}, p \in Ptrs}
    \cup {MkInput(k, "", p, <<>>, <<>>, TRUE) :
        k \in {"string", "ptr"}, p \in {"ptr", "nilptr"}}

EncInputs ==
    {NilInput} \cup {StringInput(t) : t \in Texts(MaxLen)}
    \cup {BytesInput(t) : t \in Texts(MaxLen)} \cup ShapeInputs

\* response bodies: {"a":1,"b":"a"}   {}   [1]   {   and the empty body
ObjBody == <<"{", "\"", "a", "\"", ":", "1", ",",
             "\"", "b", "\"", ":", "\"", "a", "\"", "}">>
ArrBody == <<"[", "1", "]">>
BadBody == <<"{">>
EmptyObj == <<"{", "}">>
Bodies == {ObjBody, EmptyObj, ArrBody, BadBody, <<>>}
Statuses == {199, 200, 299, 300, 404}

SendFailure == MkOutcome(FALSE, 0, <<>>, 0)
\* the body is read whole, or reading fails after at most one byte
Reads(b) == {r \in 0..Len(b) : r = Len(b) \/ r <= 1}
Outcomes ==
    {SendFailure}
    \cup UNION {{MkOutcome(TRUE, st, b, r) : st \in Statuses, r \in Reads(b)} :
                b \in Bodies}

MkReq(urlOK, opts, outcome) ==
    [urlOK |-> urlOK, opts |-> opts, outcome |-> outcome]

StructInput == MkInput("struct", "", "ptr", <<>>, << <<<<"a">>, 1>> >>, TRUE)
SliceInput  == MkInput("slice", "int", "no", <<>>, <<>>, TRUE)
DataValues == {NilInput, StringInput(ArrBody), StringInput(BadBody),
               StructInput}
Opts == {WithData(v) : v \in DataValues}
        \cup {WithTarget(v) : v \in {StructInput, SliceInput}}
OptSeqs == UNION {[1..k -> Opts] : k \in 0..MaxOpts}

\* the Query calls the caller of the decode methods makes
CallerReqs ==
    {MkReq(TRUE, <<>>, MkOutcome(TRUE, 200, b, Len(b))) : b \in Bodies}
    \cup {MkReq(TRUE, <<WithData(StructInput)>>,
                MkOutcome(TRUE, 404, ArrBody, 3)),
          MkReq(TRUE, <<>>, SendFailure),
          MkReq(TRUE, <<WithData(SliceInput)>>, SendFailure)}

\* Scan arguments
Names == {<<"a">>, <<"b">>, <<"z">>}
ArgAlphabet ==
    {Bare("ptr", c) : c \in Cells}
    \cup {Bare("nilptr", 1), Bare("nonptr", 1)}
    \cup {WithDest(n, "ptr", c) : n \in Names, c \in Cells}
    \cup {WithDest(n, d, 1) : n \in Names, d \in {"nilptr", "nonptr"}}
ArgSeqs == UNION {[1..k -> ArgAlphabet] : k \in 0..MaxArgs}

CallerArgs ==
    UNION {[1..k -> ArgAlphabet] : k \in 0..1}
    \cup {<<WithDest(<<"a">>, "ptr", 2), WithDest(<<"b">>, "ptr", 1)>>,
          <<WithDest(<<"a">>, "ptr", 1), WithDest(<<"b">>, "ptr", 2)>>,
          <<WithDest(<<"b">>, "ptr", 2), Bare("ptr", 1)>>}

\* values the caller's variables hold before a call
PreMems == {ZeroMem,
            [c \in Cells |-> IF CellType[c] = "int"
                             THEN MkVal("int", 7, <<>>)
                             ELSE MkVal("string", 0, <<"x">>)]}

\* ------------------------------------------------------------------- state
VARIABLES
    enc,      \* the last marshalInput call: its input and its result
    req,      \* the last Query call: its arguments and what the transport did
    q,        \* what that Query call did
    holder,   \* the helixResponse it returned
    mem,      \* the caller's variables
    last      \* the last decode call on the holder and its result

vars == <<enc, req, q, holder, mem, last>>

NoEnc  == [called |-> FALSE, input |-> NilInput, bytes |-> <<>>,
           err |-> NoErr]
NoReq  == MkReq(TRUE, <<>>, SendFailure)
NoQ    == MkQ(MkHolder(<<>>, FALSE, NoErr), <<>>, <<>>, 0)
MkLast(op, args, err, bytes, present, m, decodes, written, pre) ==
    [op |-> op, args |-> args, err |-> err, bytes |-> bytes,
     present |-> present, m |-> m, decodes |-> decodes,
     written |-> written, pre |-> pre]
NoLast == MkLast("none", <<>>, NoErr, <<>>, FALSE, {}, 0, <<>>, ZeroMem)

queried == q.steps # <<>>

Init ==
    /\ enc = NoEnc
    /\ req = NoReq
    /\ q = NoQ
    /\ holder = NoQ.holder
    /\ mem \in PreMems
    /\ last = NoLast

\* --------------------------------------------------------------- operations
\* the record of a marshalInput call that returned o
encOf(input, o) ==
    [called |-> TRUE, input |-> input, bytes |-> o.bytes, err |-> o.err]

MarshalCall(input) ==
    /\ enc' = encOf(input, marshalInput(input))
    /\ UNCHANGED <<req, q, holder, mem, last>>

QueryCall(r) ==
    /\ req' = r
    /\ q' = Query(r.urlOK, r.opts, r.outcome)
    /\ holder' = q'.holder
    /\ last' = NoLast
    /\ UNCHANGED <<enc, mem>>

\* the records of the decode calls that returned o
lastRaw(o, pre) ==
    MkLast("Raw", <<>>, o.err, o.bytes, o.present, {}, 0, <<>>, pre)
lastAsMap(o, pre) ==
    MkLast("AsMap", <<>>, o.err, <<>>, FALSE, o.m, o.decodes, <<>>, pre)
lastScan(args, o, pre) ==
    MkLast("Scan", args, o.err, <<>>, FALSE, {}, o.decodes, o.written, pre)

RawCall ==
    /\ queried
    /\ last' = lastRaw(Raw(holder), mem)
    /\ UNCHANGED <<enc, req, q, holder, mem>>

\* AsMap keeping the decoded bytes out of the holder once it has read them
AsMapCall_consume ==
    /\ queried
    /\ last' = lastAsMap(AsMap(holder), mem)
    /\ holder' = [holder EXCEPT !.bytes = <<>>]
    /\ UNCHANGED <<enc, req, q, mem>>

AsMapCall ==
    /\ queried
    /\ last' = lastAsMap(AsMap(holder), mem)
    /\ UNCHANGED <<enc, req, q, holder, mem>>

\* the effect of a Scan call that returned o
scanned(args, o) ==
    /\ last' = lastScan(args, o, mem)
    /\ mem' = o.mem

ScanCall(args) ==
    /\ queried
    /\ scanned(args, Scan(holder, args, mem))
    /\ UNCHANGED <<enc, req, q, holder>>

\* ----------------------------------------------------------- specifications
\* A caller that queries and decodes, again and again.
CallerQuery == \E r \in CallerReqs : QueryCall(r)
CallerScan  == \E args \in CallerArgs : ScanCall(args)
Next == CallerQuery \/ RawCall \/ AsMapCall \/ CallerScan
Spec == Init /\ [][Next]_vars

\* One Query, then one Scan with any argument list of the bounded space.
FirstQuery == ~queried /\ \E r \in CallerReqs : QueryCall(r)
FirstScan  == last.op = "none" /\ \E args \in ArgSeqs : ScanCall(args)
NextScan == FirstQuery \/ FirstScan
SpecScan == Init /\ [][NextScan]_vars

\* One Query with any options and any transport outcome.
AnyQuery ==
    /\ ~queried
    /\ \E u \in BOOLEAN, o \in OptSeqs, t \in Outcomes :
          QueryCall(MkReq(u, o, t))
NextQuery == AnyQuery
SpecQuery == Init /\ [][NextQuery]_vars

\* One marshalInput call with any input.
AnyMarshal == ~enc.called /\ \E input \in EncInputs : MarshalCall(input)
NextEnc == AnyMarshal
SpecEnc == Init /\ [][NextEnc]_vars

TypeOK == /\ holder = q.holder
          /\ last.op \in {"none", "Raw", "AsMap", "Scan"}
\* ------------------------------------------------------------------ claims
okHolder == queried /\ holder.err = NoErr
erroredHolder == queried /\ holder.err # NoErr

\* C1: on a holder whose stored error is set, Raw, AsMap and Scan (whatever
\* the arguments, however many calls came before) return exactly the stored
\* error, make no json.Unmarshal call and write no destination.
C1_ErrorPropagated ==
    (erroredHolder /\ last.op # "none") =>
        /\ last.err = holder.err
        /\ last.decodes = 0
        /\ last.written = <<>>
        /\ mem = last.pre
        /\ last.m = {}

C1_Witness ==
    /\ erroredHolder
    /\ last.op = "Scan"
    /\ Len(last.args) = 2
    /\ last.err = holder.err
    /\ mem # ZeroMem

\* the line "<status>: <body>", read back: decimal digits that denote the
\* status, a colon, a space, then the body
StatusLine(text, status, body) ==
    \E k \in 1..Len(text) :
        /\ \A i \in 1..k : text[i] \in DigitSet
        /\ Atoi(SubSeq(text, 1, k)) = status
        /\ At(text, k + 1) = ":"
        /\ At(text, k + 2) = " "
        /\ SubSeq(text, k + 3, Len(text)) = body

transportAnswered ==
    /\ queried
    /\ q.sends = 1
    /\ req.outcome.sendOK
    /\ req.outcome.read = Len(req.outcome.body)

\* C2: when the transport returns status s and body b, Query returns an
\* errored holder (no bytes, error text "<s>: <b>") if and only if s is
\* outside [200,300), and the holder (b, no error) otherwise.
C2_StatusDecidesHolder ==
    transportAnswered =>
        LET s == req.outcome.status
            b == req.outcome.body
        IN IF 200 <= s /\ s < 300
           THEN holder = MkHolder(b, TRUE, NoErr)
           ELSE /\ ~holder.present
                /\ holder.bytes = <<>>
                /\ holder.err.kind = HTTPStatusError
                /\ StatusLine(holder.err.arg, s, b)

C2_Witness ==
    /\ transportAnswered
    /\ req.outcome.status = 300
    /\ req.outcome.body = ArrBody
    /\ holder.err.arg = <<"3", "0", "0", ":", " ", "[", "1", "]">>

\* C3 as stated: Scan with zero arguments fails with NoDestination whatever
\* the state of the holder.
C3_Original ==
    (queried /\ last.op = "Scan" /\ last.args = <<>>) =>
        last.err = MkErr(NoDestination, <<>>, "")

\* C3 amended: Scan with zero arguments fails with NoDestination on an ok
\* holder, and with the stored error on an errored holder.
C3_NoDestinationOnOkHolder ==
    (queried /\ last.op = "Scan" /\ last.args = <<>>) =>
        /\ last.err = IF holder.err = NoErr
                      THEN MkErr(NoDestination, <<>>, "")
                      ELSE holder.err
        /\ last.decodes = 0
        /\ mem = last.pre

C3_Witness ==
    /\ okHolder
    /\ last.op = "Scan"
    /\ last.args = <<>>
    /\ last.err.kind = NoDestination

singleBare(kind) ==
    /\ okHolder
    /\ last.op = "Scan"
    /\ Len(last.args) = 1
    /\ ~last.args[1].opt
    /\ last.args[1].dest = kind

\* C4 as stated: on an ok holder, Scan with one argument that is neither a
\* pointer nor a WithDest descriptor fails with NotAPointer.
C4_Original ==
    singleBare("nonptr") => last.err.kind = NotAPointer

\* C4 amended: on an ok holder, Scan with one argument that is neither a
\* pointer nor a WithDest descriptor fails with InvalidArgumentType, before
\* any decode and without writing.
C4_InvalidArgumentType ==
    singleBare("nonptr") =>
        /\ last.err.kind = InvalidArgumentType
        /\ last.decodes = 0
        /\ mem = last.pre

C4_Witness ==
    singleBare("nonptr") /\ last.err.kind = InvalidArgumentType
\* What the response bodies hold, written out by hand: the top-level fields
\* of the bodies that are JSON objects, and the Go value each field gives
\* in a variable of each type (none: a shape mismatch).
ObjectBodies == {ObjBody, EmptyObj}
FieldNames(body) == IF body = ObjBody THEN {<<"a">>, <<"b">>} ELSE {}
Mismatch(name, typ) == name = <<"b">> /\ typ = "int"
FieldValue(name, typ) ==
    IF name = <<"a">>
    THEN IF typ = "int" THEN MkVal("int", 1, <<>>)
         ELSE MkVal("float64", 1, <<>>)
    ELSE MkVal("string", 0, <<"a">>)

\* the error of a descriptor on body, NoErr when it resolves
descErr(body, d) ==
    IF d.dest = "nonptr" THEN MkErr(NotAPointer, <<>>, "")
    ELSE IF d.dest = "nilptr" THEN MkErr(NilDestination, <<>>, "")
    ELSE IF d.name \notin FieldNames(body)
    THEN MkErr(FieldNotFound, d.name, "")
    ELSE IF Mismatch(d.name, CellType[d.cell])
    THEN MkErr(FieldDecodeError, d.name, UnmarshalTypeError)
    ELSE NoErr

\* index of the first failing descriptor among the first n arguments, or 0
firstFail(body, args, n) ==
    LET F == {i \in 1..n : descErr(body, args[i]) # NoErr}
    IN IF F = {} THEN 0 ELSE CHOOSE i \in F : \A j \in F : i <= j

\* the caller's variables after the first n descriptors wrote, in order,
\* and the list of their destinations
memAfter(args, n, pre) ==
    [c \in Cells |->
        LET W == {i \in 1..n : args[i].cell = c}
        IN IF W = {} THEN pre[c]
           ELSE LET l == CHOOSE i \in W : \A j \in W : j <= i
                IN FieldValue(args[l].name, CellType[c])]
destsOf(args, n) == [i \in 1..n |-> args[i].cell]

multiScan ==
    /\ okHolder
    /\ last.op = "Scan"
    /\ Len(last.args) > 1

\* C5: in a multi-target Scan on an ok holder whose body is a JSON object,
\* the descriptors are resolved in argument order and processing stops at
\* the first failing one: exactly the destinations of the descriptors before
\* it are written, in order, and keep their decoded field values (no
\* rollback; a destination two of them share keeps the later value), every
\* other variable keeps the value it had before the call, and the error is
\* that of the first failing descriptor (FieldNotFound{name} for an absent
\* name, FieldDecodeError{name} for a shape mismatch).
C5_StopsAtFirstFailure ==
    LET args == last.args
        k == firstFail(holder.bytes, args, Len(args))
    IN (/\ multiScan
        /\ holder.bytes \in ObjectBodies
        /\ \A i \in 1..Len(args) : args[i].opt
        /\ k # 0) =>
           /\ last.err = descErr(holder.bytes, args[k])
           /\ last.written = destsOf(args, k - 1)
           /\ mem = memAfter(args, k - 1, last.pre)
           /\ last.decodes <= k + 1

C5_Witness ==
    /\ multiScan
    /\ holder.bytes = ObjBody
    /\ last.pre # ZeroMem
    /\ last.args = <<WithDest(<<"a">>, "ptr", 2), WithDest(<<"b">>, "ptr", 1),
                     WithDest(<<"a">>, "ptr", 1)>>
    /\ last.err = MkErr(FieldDecodeError, <<"b">>, UnmarshalTypeError)
    /\ mem[2] = MkVal("float64", 1, <<>>)
    /\ mem[1] = last.pre[1]

mixedScan ==
    /\ multiScan
    /\ \E i \in 1..Len(last.args) : ~last.args[i].opt

firstBare(args) ==
    CHOOSE i \in 1..Len(args) :
        ~args[i].opt /\ \A j \in 1..(i - 1) : args[j].opt

\* C6 as stated: on an ok holder, a Scan call with more than one argument,
\* not all of them descriptors, fails with InvalidArgumentType.
C6_Original ==
    mixedScan => last.err.kind = InvalidArgumentType

\* C6 amended: such a call always fails.  It fails with InvalidArgumentType
\* when the body is a JSON object and every descriptor placed before the
\* first bare argument resolves (their destinations are then written);
\* otherwise it fails earlier, with the invalid-response error when the body
\* is not a JSON object, or with the error of the first failing descriptor
\* placed before the bare argument.
C6_MixedArgumentsFail ==
    mixedScan =>
        LET args == last.args
            b == firstBare(args)
            k == firstFail(holder.bytes, args, b - 1)
        IN /\ last.err # NoErr
           /\ IF holder.bytes \notin ObjectBodies
              THEN last.err.kind = InvalidResponse /\ mem = last.pre
              ELSE IF k # 0
              THEN /\ last.err = descErr(holder.bytes, args[k])
                   /\ mem = memAfter(args, k - 1, last.pre)
              ELSE /\ last.err.kind = InvalidArgumentType
                   /\ last.written = destsOf(args, b - 1)
                   /\ mem = memAfter(args, b - 1, last.pre)

C6_Witness ==
    /\ mixedScan
    /\ holder.bytes = ObjBody
    /\ last.args = <<WithDest(<<"a">>, "ptr", 1), Bare("ptr", 2)>>
    /\ last.err.kind = InvalidArgumentType
    /\ mem[1] = MkVal("int", 1, <<>>)
\* JSON texts over Alphabet of length at most n, built from the grammar
\*   value  = number | string | "[" [ value { "," value } ] "]"
\*          | "{" [ string ":" value { "," string ":" value } ] "}"
\*   number = "0" | nonzero digit { digit }       string = '"' { char } '"'
AlphaDigits == Alphabet \cap DigitSet
NumberTexts(n) ==
    {t \in UNION {[1..k -> AlphaDigits] : k \in 1..n} :
        Len(t) > 1 => t[1] # "0"}
StringTexts(n) ==
    {<<"\"">> \o t \o <<"\"">> :
        t \in UNION {[1..k -> Alphabet \ {"\""}] : k \in 0..(n - 2)}}

RECURSIVE ValueTexts(_), ElementTexts(_), MemberTexts(_)
ValueTexts(n) ==
    IF n < 1 THEN {}
    ELSE NumberTexts(n) \cup StringTexts(n)
         \cup (IF n < 2 THEN {}
               ELSE {<<"[", "]">>, <<"{", "}">>}
                    \cup {<<"[">> \o e \o <<"]">> : e \in ElementTexts(n - 2)}
                    \cup {<<"{">> \o m \o <<"}">> : m \in MemberTexts(n - 2)})
ElementTexts(n) ==
    IF n < 1 THEN {}
    ELSE ValueTexts(n)
         \cup {x \in {v \o <<",">> \o e :
                        v \in ValueTexts(n - 2), e \in ElementTexts(n - 2)} :
                  Len(x) <= n}
MemberTexts(n) ==
    IF n < 4 THEN {}
    ELSE LET one == {x \in {k \o <<":">> \o v :
                              k \in StringTexts(n - 2),
                              v \in ValueTexts(n - 3)} : Len(x) <= n}
         IN one \cup {x \in {m \o <<",">> \o r :
                               m \in one, r \in MemberTexts(n - 5)} :
                         Len(x) <= n}
GrammarJSON == ValueTexts(MaxLen)

\* C7: for a string and for a []byte input, marshalInput succeeds if and
\* only if the input is syntactically valid JSON; on success the payload is
\* the input byte for byte; on failure the error is InvalidJSONString for a
\* string and InvalidJSONBytes for a []byte.  A nil input encodes to {}.
C7_RawJSONVerbatim ==
    enc.called =>
        /\ (isString(enc.input) \/ isBytes(enc.input)) =>
              IF enc.input.text \in GrammarJSON
              THEN enc.err = NoErr /\ enc.bytes = enc.input.text
              ELSE /\ enc.bytes = <<>>
                   /\ enc.err.kind = IF isString(enc.input)
                                     THEN InvalidJSONString
                                     ELSE InvalidJSONBytes
        /\ enc.input = NilInput =>
              enc.err = NoErr /\ enc.bytes = <<"{", "}">>

C7_Witness ==
    /\ enc.called
    /\ isString(enc.input)
    /\ enc.input.text = <<"[", "1", "]">>
    /\ enc.bytes = <<"[", "1", "]">>
    /\ enc.err = NoErr

isSequence(input) == input.kind \in {"slice", "array"}

\* C8 as stated: every slice or array input, of any element type, directly
\* or behind one pointer, fails with SequenceNotAllowed and gives no payload.
C8_Original ==
    (enc.called /\ isSequence(enc.input)) =>
        enc.err.kind = SequenceNotAllowed /\ enc.bytes = <<>>

\* C8 amended: every slice or array input, directly or behind one non-nil
\* pointer, fails with SequenceNotAllowed and gives no payload, except a
\* []byte passed directly, which is taken as raw JSON (forwarded when valid,
\* InvalidJSONBytes otherwise); a nil pointer to a slice or array fails with
\* UnsupportedShape.
C8_SequencesRejected ==
    (enc.called /\ isSequence(enc.input)) =>
        IF isBytes(enc.input)
        THEN \/ enc.err = NoErr /\ enc.bytes = enc.input.text
             \/ enc.err.kind = InvalidJSONBytes /\ enc.bytes = <<>>
        ELSE IF enc.input.ptr = "nilptr"
        THEN enc.err.kind = UnsupportedShape /\ enc.bytes = <<>>
        ELSE enc.err.kind = SequenceNotAllowed /\ enc.bytes = <<>>

C8_Witness ==
    /\ enc.called
    /\ enc.input.kind = "slice"
    /\ enc.input.elem = "uint8"
    /\ enc.input.ptr = "ptr"
    /\ enc.input.text = <<"{", "}">>
    /\ enc.err.kind = SequenceNotAllowed

\* the one option list a list of options comes down to: its last data
\* option, if it has one
lastData(opts) ==
    LET D == {i \in 1..Len(opts) : opts[i].k = "data"}
    IN IF D = {} THEN <<>>
       ELSE <<opts[CHOOSE i \in D : \A j \in D : j <= i]>>

\* C9: the payload of a Query call, and with it the holder, depends on the
\* options only through the value of the last data option (nil, hence {},
\* when there is none): earlier data options and all target-type options
\* have no effect.
C9_LastDataOptionWins ==
    queried =>
        /\ q = Query(req.urlOK, lastData(req.opts), req.outcome)
        /\ lastData(req.opts) = <<>> => q.payload = <<"{", "}">>

C9_Witness ==
    /\ queried
    /\ Len(req.opts) = 3
    /\ req.opts[1] = WithData(StringInput(<<"{">>))
    /\ req.opts[2] = WithData(StructInput)
    /\ req.opts[3] = WithTarget(SliceInput)
    /\ q.payload = <<"{", "\"", "a", "\"", ":", "1", "}">>
    /\ holder.err = NoErr

\* C10: no decode call changes the holder: after any sequence of Raw, AsMap
\* and Scan calls it is the holder Query returned, Raw returns that same
\* pair, and what AsMap and Scan return is what they return on the holder
\* as Query built it, whatever calls came before.
C10_HolderImmutable ==
    (queried /\ last.op # "none") =>
        /\ holder = q.holder
        /\ last.op = "Raw" =>
              /\ last.bytes = q.holder.bytes
              /\ last.present = q.holder.present
              /\ last.err = q.holder.err
        /\ last.op = "AsMap" =>
              /\ last.m = AsMap(q.holder).m
              /\ last.err = AsMap(q.holder).err
        /\ last.op = "Scan" =>
              last.err = Scan(q.holder, last.args, ZeroMem).err

C10_Witness ==
    /\ okHolder
    /\ holder.bytes = ObjBody
    /\ last.op = "Raw"
    /\ last.bytes = ObjBody
    /\ mem[1] = MkVal("int", 1, <<>>)
    /\ mem[2] = MkVal("map", 2, <<>>)

\* the arguments whose target is not a non-nil pointer, and the first of them
invalidTargets(args) == {i \in 1..Len(args) : args[i].dest # "ptr"}
firstInvalid(args) ==
    CHOOSE i \in invalidTargets(args) : \A j \in invalidTargets(args) : i <= j

\* the failure kind of a destination that is not a non-nil pointer
destErr(dest) ==
    IF dest = "nilptr" THEN MkErr(NilDestination, <<>>, "")
    ELSE MkErr(NotAPointer, <<>>, "")

scanWithInvalidTarget ==
    /\ okHolder
    /\ last.op = "Scan"
    /\ invalidTargets(last.args) # {}

\* C11 as stated: in a Scan call on an ok holder with a target that is not a
\* non-nil pointer, the call fails with the destination error without any
\* json.Unmarshal call (of the body or of a field) and without any write.
C11_Original ==
    scanWithInvalidTarget =>
        /\ last.err.kind \in {NilDestination, NotAPointer}
        /\ last.decodes = 0
        /\ last.written = <<>>
        /\ mem = last.pre

\* C11 amended: each target is validated before any decode into that target.
\* With k the first argument whose target is not a non-nil pointer, the call
\* fails; nothing is decoded into target k or into any later one: there are
\* at most k json.Unmarshal calls (the body, then the fields of the
\* descriptors before k) and only destinations of descriptors before k are
\* written, in order.  A single bare argument fails with InvalidArgumentType
\* before any decode.  When the arguments up to k are descriptors the body is
\* decoded first: the call fails with the invalid-response error when the
\* body is not a JSON object, with the error of the first failing descriptor
\* before k if there is one, and otherwise with the destination error of
\* target k after the k - 1 earlier destinations were written.
C11_ValidatedBeforeOwnDecode ==
    scanWithInvalidTarget =>
        LET args == last.args
            k == firstInvalid(args)
            w == Len(last.written)
        IN /\ last.err # NoErr
           /\ last.decodes <= k
           /\ w <= k - 1
           /\ last.written = destsOf(args, w)
           /\ mem = memAfter(args, w, last.pre)
           /\ (Len(args) = 1 /\ ~args[1].opt) =>
                 /\ last.err.kind = InvalidArgumentType
                 /\ last.decodes = 0
                 /\ mem = last.pre
           /\ (\A i \in 1..k : args[i].opt) =>
                 IF holder.bytes \notin ObjectBodies
                 THEN /\ last.err.kind = InvalidResponse
                      /\ last.decodes = 1
                      /\ w = 0
                 ELSE LET f == firstFail(holder.bytes, args, k)
                      IN /\ last.err = descErr(holder.bytes, args[f])
                         /\ w = f - 1
                         /\ f = k => /\ last.err = destErr(args[k].dest)
                                     /\ last.decodes = k

C11_Witness ==
    /\ scanWithInvalidTarget
    /\ holder.bytes = ObjBody
    /\ last.args = <<WithDest(<<"a">>, "ptr", 1),
                     WithDest(<<"b">>, "nilptr", 1)>>
    /\ last.err.kind = NilDestination
    /\ last.decodes = 2
    /\ last.written = <<1>>
    /\ mem[1] = MkVal("int", 1, <<>>)

\* the steps of Query in the order the claim gives them, the data value a
\* call's options leave in the option record, and the data values of the
\* input space that the encoder rejects (text that is not JSON, a slice)
StepOrder == <<"encode", "build", "send", "read", "status">>
dataOf(opts) == IF lastData(opts) = <<>> THEN NilInput ELSE lastData(opts)[1].v
RejectedData == {StringInput(BadBody), SliceInput}

\* the number of steps a call goes through: up to the first of encode, build
\* and send that fails, all five otherwise (reading the body has no failure
\* exit of its own)
stopAt(r) ==
    IF dataOf(r.opts) \in RejectedData THEN 1
    ELSE IF ~r.urlOK THEN 2
    ELSE IF ~r.outcome.sendOK THEN 3
    ELSE 5

\* C12: a Query call runs encode, build request, send, read body and check
\* status in that order and stops at the first step that fails, which gives
\* the errored holder of that step and runs no later step; the transport is
\* invoked at most once per call, exactly when the send step is reached, and
\* never when encoding the data option fails.
C12_StepsInOrder ==
    queried =>
        LET n == stopAt(req)
            st == req.outcome.status
        IN /\ q.steps = SubSeq(StepOrder, 1, n)
           /\ q.sends = Cardinality({i \in 1..Len(q.steps) :
                                        q.steps[i] = "send"})
           /\ q.sends <= 1
           /\ n = 1 => /\ holder.err.kind = EncodeError
                       /\ q.sends = 0
                       /\ q.payload = <<>>
           /\ n = 2 => holder.err.kind = RequestBuildError /\ q.sends = 0
           /\ n = 3 => holder.err.kind = TransportError /\ q.sends = 1
           /\ n < 5 => holder.bytes = <<>> /\ ~holder.present
           /\ n = 5 => /\ q.sends = 1
                       /\ holder.err # NoErr <=> ~(200 <= st /\ st < 300)
                       /\ holder.err # NoErr =>
                             holder.err.kind = HTTPStatusError

C12_Witness ==
    /\ queried
    /\ Len(req.opts) = 2
    /\ dataOf(req.opts) = StringInput(BadBody)
    /\ req.urlOK
    /\ req.outcome.sendOK
    /\ req.outcome.status = 200
    /\ q.steps = <<"encode">>
    /\ q.sends = 0
    /\ holder.err.kind = EncodeError

\* the transport answered and reading the body failed part-way
readFailed ==
    /\ queried
    /\ q.sends = 1
    /\ req.outcome.sendOK
    /\ req.outcome.read < Len(req.outcome.body)

\* the bytes io.ReadAll had read when it failed
bytesRead == SubSeq(req.outcome.body, 1, req.outcome.read)

\* C13 as stated: when reading the body fails, the holder is built as if the
\* body were empty, whatever bytes were read before the failure: the ok
\* holder with empty bytes for a status in [200,300), the error text
\* "<status>: " otherwise.
C13_Original ==
    readFailed =>
        LET st == req.outcome.status
        IN IF 200 <= st /\ st < 300
           THEN holder = MkHolder(<<>>, TRUE, NoErr)
           ELSE /\ holder.err.kind = HTTPStatusError
                /\ StatusLine(holder.err.arg, st, <<>>)

\* C13 amended: when reading the body fails, Query drops the read error and
\* builds the holder from the bytes read before the failure: the ok holder
\* with those bytes for a status in [200,300), the error text
\* "<status>: <those bytes>" otherwise.  The body counts as empty only when
\* nothing was read; in no case does the read error reach the holder.
C13_ReadErrorKeepsPrefix ==
    readFailed =>
        LET st == req.outcome.status
        IN /\ q.steps = StepOrder
           /\ IF 200 <= st /\ st < 300
              THEN holder = MkHolder(bytesRead, TRUE, NoErr)
              ELSE /\ holder.bytes = <<>>
                   /\ ~holder.present
                   /\ holder.err.kind = HTTPStatusError
                   /\ holder.err.cause = ""
                   /\ StatusLine(holder.err.arg, st, bytesRead)

C13_Witness ==
    /\ readFailed
    /\ req.outcome.status = 200
    /\ req.outcome.body = ObjBody
    /\ req.outcome.read = 1
    /\ holder = MkHolder(<<"{">>, TRUE, NoErr)

\* a Scan call on an ok holder whose one argument is a descriptor
singleDescriptor ==
    /\ okHolder
    /\ last.op = "Scan"
    /\ Len(last.args) = 1
    /\ last.args[1].opt

\* C14 as stated: on an ok holder, a Scan whose target is a nil pointer
\* fails with NilDestination and one whose target is not a pointer fails
\* with NotAPointer, when the target is the single bare argument and when
\* it is the destination of a WithDest descriptor.
C14_Original ==
    /\ \A d \in {"nilptr", "nonptr"} :
          singleBare(d) => last.err = destErr(d)
    /\ (singleDescriptor /\ last.args[1].dest # "ptr") =>
          last.err = destErr(last.args[1].dest)

\* C14 amended: the two failure kinds are told apart only for the
\* destination of a WithDest descriptor, and only once the body has decoded
\* as a JSON object: a descriptor that the call reaches fails with
\* NilDestination when its destination is a nil pointer and with NotAPointer
\* when it is not a pointer, whether or not the body has the field; when the
\* body is not a JSON object the call fails with the invalid-response error
\* instead.  A single bare argument fails with InvalidArgumentType when it
\* is a nil pointer and when it is not a pointer alike.  No such call writes
\* the invalid target.
C14_DestinationKinds ==
    /\ \A d \in {"nilptr", "nonptr"} :
          singleBare(d) =>
              /\ last.err = MkErr(InvalidArgumentType, <<d>>, "")
              /\ last.decodes = 0
              /\ mem = last.pre
    /\ (okHolder /\ last.op = "Scan" /\ last.args # <<>>
           /\ \A i \in 1..Len(last.args) : last.args[i].opt
           /\ invalidTargets(last.args) # {}) =>
          LET args == last.args
              k == firstInvalid(args)
          IN IF holder.bytes \notin ObjectBodies
             THEN last.err.kind = InvalidResponse
             ELSE IF firstFail(holder.bytes, args, k - 1) # 0
             THEN last.err.kind \in {FieldNotFound, FieldDecodeError}
             ELSE /\ args[k].dest = "nilptr" =>
                        last.err = MkErr(NilDestination, <<>>, "")
                  /\ args[k].dest = "nonptr" =>
                        last.err = MkErr(NotAPointer, <<>>, "")

C14_Witness ==
    /\ singleDescriptor
    /\ holder.bytes = ObjBody
    /\ last.args[1] = WithDest(<<"z">>, "nilptr", 1)
    /\ last.err.kind = NilDestination
    /\ last.err.kind # NotAPointer
    /\ mem = last.pre

\* a Scan call, on any holder, whose one argument is a descriptor
oneDescriptor ==
    /\ queried
    /\ last.op = "Scan"
    /\ Len(last.args) = 1
    /\ last.args[1].opt

\* what the order body decode, destination validity, field lookup, field
\* decode gives for descriptor d on body
orderedErr(body, d) ==
    IF body \notin ObjectBodies
    THEN MkErr(InvalidResponse, <<>>,
               IF body = ArrBody THEN UnmarshalTypeError ELSE SyntaxError)
    ELSE descErr(body, d)

\* C15: Scan(d) with one descriptor d returns the error, makes the writes
\* and the json.Unmarshal calls, and leaves the caller's variables as the
\* multi-target procedure (decode the body into the raw-keyed mapping, then
\* resolve each descriptor in order) does on the one-element list [d]; on a
\* holder with a stored error both come after the stored-error check.  The
\* checks come in the order body decode, destination validity, field
\* lookup, field decode.
C15_SingleDescriptorIsMulti ==
    oneDescriptor =>
        LET d == last.args[1]
            o == IF holder.err # NoErr
                 THEN MkOut(holder.err, last.pre, 0, <<>>)
                 ELSE scanMulti(holder, <<d>>, last.pre)
        IN /\ last.err = o.err
           /\ last.written = o.written
           /\ last.decodes = o.decodes
           /\ mem = o.mem
           /\ holder.err = NoErr =>
                 /\ last.err = orderedErr(holder.bytes, d)
                 /\ last.err = NoErr =>
                       /\ last.written = <<d.cell>>
                       /\ mem = memAfter(<<d>>, 1, last.pre)
                 /\ last.err.kind # FieldDecodeError /\ last.err # NoErr =>
                       mem = last.pre

C15_Witness ==
    /\ oneDescriptor
    /\ holder.err = NoErr
    /\ holder.bytes = ArrBody
    /\ last.args[1] = WithDest(<<"a">>, "nilptr", 1)
    /\ last.err.kind = InvalidResponse
    /\ last.err = scanMulti(holder, last.args, last.pre).err
====
